---------------------------- MODULE Spec2Model ----------------------------
(***************************************************************************)
(* A model of wawebupdate (src/wawebupdate.py): the maubot plugin that     *)
(* polls the WhatsApp web version endpoint, compares the answer with the   *)
(* version kept in its config and tells every joined room about a change.  *)
(*                                                                         *)
(* The poll task is one coroutine.  It is suspended at its awaits (the     *)
(* HTTP GET, the JSON read, get_joined_rooms, send_markdown, leave_room,   *)
(* the hourly sleep) and runs without interruption between two of them, so *)
(* every action below is the code from one await to the next.              *)
(*                                                                         *)
(* Strings are sequences of one-character strings, so that str() and       *)
(* VersionInfo.parse() are real conversions; a version is a triple of      *)
(* naturals.                                                               *)
(***************************************************************************)
EXTENDS Integers, Sequences, FiniteSets, TLC

\* ------------------------------------------------------------------ bounds

\* How many entries of VersionPool the remote endpoint can report.
MaxVersions == 2

\* How many rooms exist.
MaxRooms == 2

\* ------------------------------------------------------------ python values

\* Python's None where a VersionInfo is expected (a version has length 3).
None == <<>>

\* The config key holds no value (YAML null); no string has this element.
Absent == <<"<absent>">>

Digits == <<"0", "1", "2", "3", "4", "5", "6", "7", "8", "9">>

DigitSet == {Digits[i] : i \in 1..10}

DigitVal(c) == (CHOOSE i \in 1..10 : Digits[i] = c) - 1

\* The number the first n digits of s read as.
RECURSIVE ValueOf(_, _)
ValueOf(s, n) == IF n = 0 THEN 0 ELSE 10 * ValueOf(s, n - 1) + DigitVal(s[n])

StrToInt(s) == ValueOf(s, Len(s))

RECURSIVE IntToStr(_)
IntToStr(n) ==
    IF n < 10 THEN <<Digits[n + 1]>>
    ELSE IntToStr(n \div 10) \o <<Digits[(n % 10) + 1]>>

\* The position of the k-th dot of s; 0 before the first piece, Len(s) + 1
\* after the last.
DotAt(s, k) ==
    LET dots == {i \in 1..Len(s) : s[i] = "."}
    IN  IF k = 0 THEN 0
        ELSE IF k > Cardinality(dots) THEN Len(s) + 1
        ELSE CHOOSE i \in dots : Cardinality({j \in dots : j < i}) = k - 1

\* s.split("."): the pieces of s between its dots.
Split(s) ==
    [k \in 1..(Cardinality({i \in 1..Len(s) : s[i] = "."}) + 1) |->
        SubSeq(s, DotAt(s, k - 1) + 1, DotAt(s, k) - 1)]

\* One numeric identifier of the semver grammar: 0, or digits with no leading 0.
IsNumeric(s) ==
    /\ Len(s) > 0
    /\ \A i \in 1..Len(s) : s[i] \in DigitSet
    /\ (Len(s) > 1 => s[1] # "0")

\* Whether VersionInfo.parse(s) returns (it raises ValueError otherwise).  The
\* strings of this model hold no pre-release or build part.
CanParse(s) ==
    /\ s # Absent
    /\ \E parts \in {Split(s)} :
          Len(parts) = 3 /\ \A i \in 1..3 : IsNumeric(parts[i])

\* VersionInfo.parse(s) for a string it accepts.
Parse(s) == <<StrToInt(Split(s)[1]), StrToInt(Split(s)[2]), StrToInt(Split(s)[3])>>

\* str(v) of a VersionInfo, and of None.
Str(v) ==
    IF v = None THEN <<"N", "o", "n", "e">>
    ELSE IntToStr(v[1]) \o <<".">> \o IntToStr(v[2]) \o <<".">> \o IntToStr(v[3])

\* VersionInfo.compare: -1, 0 or 1, by major, then minor, then patch.
Compare(a, b) ==
    IF a[1] # b[1] THEN (IF a[1] < b[1] THEN -1 ELSE 1)
    ELSE IF a[2] # b[2] THEN (IF a[2] < b[2] THEN -1 ELSE 1)
    ELSE IF a[3] # b[3] THEN (IF a[3] < b[3] THEN -1 ELSE 1)
    ELSE 0

\* Python truth of a string, and `a or b`.
Truthy(s) == s # Absent /\ Len(s) > 0

Or(a, b) == IF Truthy(a) THEN a ELSE b

\* The fallback of the version query parameter, "2.2222.11".
Sentinel == <<"2", ".", "2", "2", "2", "2", ".", "1", "1">>

\* ------------------------------------------------------------- environment

VersionPool == << <<2, 9, 10>>, <<2, 10, 9>>, <<2, 10, 10>>, <<3, 0, 0>> >>

\* The versions the endpoint reports in this model.
RemoteVersions ==
    {VersionPool[i] : i \in 1..(IF MaxVersions < 4 THEN MaxVersions ELSE 4)}

Rooms == 1..MaxRooms

Platforms == {"web", "zz"}

\* The platform option is missing from the config: config["platform"] is None.
PlatformAbsent == "<absent>"

\* What the config file can hold for platform when the plugin starts.
InitialPlatforms == Platforms \cup {PlatformAbsent}

\* A stored last_known_version that VersionInfo.parse rejects.
Garbage == <<"2", ".", "x">>

\* What the config file can hold for last_known_version when the plugin starts.
InitialBaselines == {Absent, <<>>, Garbage} \cup {Str(v) : v \in RemoteVersions}

\* The rooms of a set as the list get_joined_rooms returns, in ascending order.
RECURSIVE SetToList(_)
SetToList(S) ==
    IF S = {} THEN <<>>
    ELSE LET m == CHOOSE x \in S : \A y \in S : x <= y
         IN  <<m>> \o SetToList(S \ {m})


\* ------------------------------------------------------------------- state

VARIABLES
    disk,             \* the config as stored: what load_and_update() reads
    config,           \* self.config: the loaded config, in memory
    joined,           \* the rooms the bot is joined to
    pc,               \* where poll_task is: its await, or no task
    baseline,         \* self.last_known_version as read when the cycle began
                      \* (it, current_version, rooms and log stay as the
                      \* record of the cycle while the task sleeps)
    check_url,        \* the query of the request of this cycle
    resp,             \* the response of this cycle
    current_version,  \* the version parsed from the response
    old_version,      \* _notify_change's old_version argument
    msg,              \* the message _notify_change built
    rooms,            \* the list get_joined_rooms returned
    idx,              \* the position of the for loop in rooms
    log,              \* what this cycle did so far: saves, sends, leaves
    notified,         \* (room, old, new) delivered, while new is not stored
                      \* and the endpoint has answered nothing but new since
    sleeps,           \* interval sleeps poll_task completed since its last GET
                      \* (since its creation before the first), counted to 2
    cancel_requested, \* stop() has called poll_task.cancel() on this task
    orphan            \* a task start() replaced in self.poll_task while it was
                      \* running, which stop() can no longer reach: "none", or
                      \* the phase of its loop, "cycle" or "sleep"

vars == <<disk, config, joined, pc, baseline, check_url, resp,
          current_version, old_version, msg, rooms, idx, log, notified,
          sleeps, cancel_requested, orphan>>

cycleVars == <<baseline, check_url, resp, current_version, old_version, msg,
               rooms, idx, log>>

NoConfig == [last_known_version |-> Absent, platform |-> ""]

NoUrl == [version |-> <<>>, platform |-> ""]

NoResp == [status |-> 0, json |-> FALSE, has |-> FALSE, currentVersion |-> <<>>]

NoMsg == [thing |-> "", action |-> "", emoji |-> "", old |-> <<>>, new |-> <<>>,
          url |-> NoUrl]

Event(op, room, res) == [op |-> op, room |-> room, res |-> res]

\* ---------------------------------------------------------- config access

\* Config.do_update: the two keys load_and_update() carries over.
LoadAndUpdate(stored) ==
    [last_known_version |-> stored.last_known_version, platform |-> stored.platform]

\* The last_known_version getter raises (VersionInfo.parse on a bad string).
GetterRaises(cfg) ==
    Truthy(cfg.last_known_version) /\ ~CanParse(cfg.last_known_version)

\* The last_known_version getter: the parsed version, None for no value or "".
LastKnownVersion(cfg) ==
    IF Truthy(cfg.last_known_version) THEN Parse(cfg.last_known_version) ELSE None

\* Building the query raises: with_query takes no None for a value.
UrlRaises(cfg) == cfg.platform = PlatformAbsent

\* The query _poll_once builds from self.last_known_version and self.platform.
CheckUrl(lkv, platform) ==
    [version  |-> Or(Str(lkv), Sentinel),
     platform |-> platform]

\* Changed with the first-run case left out.
ChangedWithBaseline(cur, lkv) == lkv # None /\ Compare(cur, lkv) # 0

\* Changed with only upgrades detected.
ChangedIfNewer(cur, lkv) == lkv = None \/ Compare(cur, lkv) > 0

\* Changed with the comparison left out.
ChangedAlways(cur, lkv) == TRUE

\* The condition of line 88 that the fetched version is to be stored.
Changed(cur, lkv) == lkv = None \/ Compare(cur, lkv) # 0

\* The condition of line 89 that the rooms are to be told.
ShouldNotify(lkv) == lkv # None

\* ------------------------------------------------------------- exceptions
\* An exception is "MForbidden", "Exception" (any other Exception) or
\* "CancelledError", which is a BaseException.

IsException(e) == e \in {"MForbidden", "Exception"}

\* A handler that is missing.
CatchesNothing(e) == FALSE

\* A handler that catches BaseException, CancelledError included.
CatchesAll(e) == TRUE

\* except MForbidden, around send_markdown.
SendCatchesForbidden(e) == e = "MForbidden"

\* except Exception, around send_markdown.
SendCatches(e) == IsException(e)

\* except Exception, around leave_room.
LeaveCatches(e) == IsException(e)

\* except Exception, around the call of _notify_change.
NotifyCatches(e) == IsException(e)

\* except Exception, around the call of _poll_once.
PollCatches(e) == IsException(e)

\* AfterPollOnce with a failed cycle retried at once, without the sleep.
AfterPollOnceRetry(e) ==
    IF e = "" THEN "sleep"
    ELSE IF PollCatches(e) THEN "woken"
    ELSE IF e = "CancelledError" THEN "cancelled" ELSE "failed"

\* Where poll() is after _poll_once ended with e ("" when it returned).
AfterPollOnce(e) ==
    IF e = "" \/ PollCatches(e) THEN "sleep"
    ELSE IF e = "CancelledError" THEN "cancelled" ELSE "failed"

\* Where the task is after e was raised at the await it is suspended in.
RaisedAt(site, e) ==
    IF site = "send" /\ SendCatchesForbidden(e) THEN "leave"
    ELSE IF site = "send" /\ SendCatches(e) THEN "next"
    ELSE IF site = "leave" /\ LeaveCatches(e) THEN "next"
    ELSE IF site \in {"rooms", "send", "leave"} /\ NotifyCatches(e) THEN "persist"
    ELSE IF site \in {"created", "sleep", "woken"}
         THEN (IF e = "CancelledError" THEN "cancelled" ELSE "failed")
    ELSE AfterPollOnce(e)

\* ----------------------------------------------------------------- message

Thing(platform) ==
    CASE platform = "web" -> "web.whatsapp.com"
      [] platform = "darwin" -> "WhatsApp macOS"
      [] platform = "darwin-beta" -> "WhatsApp macOS (beta)"
      [] platform = "win32" -> "WhatsApp Windows"
      [] platform = "win32-beta" -> "WhatsApp Windows (beta)"
      [] platform = "win32-store" -> "WhatsApp Windows (store)"
      [] OTHER -> "unknown WhatsApp web platform"

\* Action with the two versions the wrong way round.
ActionReversed(old, new) == IF Compare(old, new) > 0 THEN "updated" ELSE "downgraded"

Action(old, new) == IF Compare(new, old) > 0 THEN "updated" ELSE "downgraded"

Emoji(old, new) == IF Compare(new, old) > 0 THEN "tada" ELSE "thinking"

Message(url, old, new, platform) ==
    [thing |-> Thing(platform), action |-> Action(old, new),
     emoji |-> Emoji(old, new), old |-> Str(old), new |-> Str(new), url |-> url]

\* ----------------------------------------------------------------- actions

Init ==
    /\ disk \in [last_known_version : InitialBaselines, platform : InitialPlatforms]
    /\ config = NoConfig
    /\ joined \in SUBSET Rooms
    /\ pc = "stopped"
    /\ baseline = None
    /\ check_url = NoUrl
    /\ resp = NoResp
    /\ current_version = None
    /\ old_version = None
    /\ msg = NoMsg
    /\ rooms = <<>>
    /\ idx = 0
    /\ log = <<>>
    /\ notified = {}
    /\ sleeps = 0
    /\ cancel_requested = FALSE
    /\ orphan = "none"

\* No cycle is under way: nothing is left of the last one.
NoCycle ==
    /\ baseline' = None
    /\ check_url' = NoUrl
    /\ resp' = NoResp
    /\ current_version' = None
    /\ old_version' = None
    /\ msg' = NoMsg
    /\ rooms' = <<>>
    /\ idx' = 0
    /\ log' = <<>>

\* Where a task that has not ended can be.
Live == {"created", "get", "json", "rooms", "send", "leave", "sleep", "woken"}

\* The phase of poll()'s loop a task at pc is in.
Phase(at) == IF at = "sleep" THEN "sleep" ELSE "cycle"

\* The body of start(): load the config, create the poll task and assign it
\* to self.poll_task.  A task that was still running stays behind, running.
StartTask ==
    /\ config' = LoadAndUpdate(disk)
    /\ pc' = "created"
    /\ cancel_requested' = FALSE
    /\ sleeps' = 0
    /\ orphan' = IF pc \in Live THEN Phase(pc) ELSE orphan
    /\ NoCycle
    /\ UNCHANGED <<disk, joined, notified>>

\* start() as the framework calls it: on an instance that was not started yet
\* or was stopped since.
Start ==
    /\ pc = "stopped" \/ cancel_requested
    /\ StartTask

\* start() called again on a started instance that was not stopped (one task
\* left behind at most).
StartAgain ==
    /\ pc # "stopped" /\ ~cancel_requested
    /\ orphan = "none"
    /\ StartTask

\* The task left behind goes on with poll()'s loop: its cycle ends and it
\* sleeps, its sleep ends and it starts a cycle.
OrphanStep ==
    /\ orphan # "none"
    /\ orphan' = IF orphan = "cycle" THEN "sleep" ELSE "cycle"
    /\ UNCHANGED <<disk, config, joined, pc, cycleVars, notified, sleeps,
                   cancel_requested>>

\* stop(): cancel the poll task; CancelledError is raised at its await and ends
\* the cycle under way.  The same state is left by the process dying there.
Stop ==
    /\ pc \in Live
    /\ ~cancel_requested
    /\ pc' = RaisedAt(pc, "CancelledError")
    /\ cancel_requested' = TRUE
    /\ sleeps' = 0
    /\ NoCycle
    /\ UNCHANGED <<disk, config, joined, notified, orphan>>

\* await asyncio.sleep(60 * 60) is over: the task is to be resumed.
SleepDone ==
    /\ pc = "sleep"
    /\ pc' = "woken"
    /\ sleeps' = IF sleeps < 2 THEN sleeps + 1 ELSE sleeps
    /\ NoCycle
    /\ UNCHANGED <<disk, config, joined, notified, cancel_requested, orphan>>

\* _poll_once is left: its check_url and resp are gone.
PollOnceOver ==
    /\ check_url' = NoUrl
    /\ resp' = NoResp

\* _notify_change is left: its arguments, msg and loop position are gone.
NotifyChangeOver ==
    /\ old_version' = None
    /\ msg' = NoMsg
    /\ idx' = 0

\* Persist with the value in memory set only once the save has succeeded.
PersistIfSaved(val, ok, lg) ==
    /\ config' = IF ok THEN [config EXCEPT !.last_known_version = Str(val)] ELSE config
    /\ disk' = IF ok THEN config' ELSE disk
    /\ log' = Append(lg, Event("save", 0, IF ok THEN "" ELSE "Exception"))
    /\ pc' = AfterPollOnce(IF ok THEN "" ELSE "Exception")
    /\ PollOnceOver

\* The last_known_version setter, then the rest of poll()'s loop body:
\* config.save() succeeds (ok) or raises into poll()'s handler.
Persist(val, ok, lg) ==
    /\ config' = [config EXCEPT !.last_known_version = Str(val)]
    /\ disk' = IF ok THEN config' ELSE disk
    /\ log' = Append(lg, Event("save", 0, IF ok THEN "" ELSE "Exception"))
    /\ pc' = AfterPollOnce(IF ok THEN "" ELSE "Exception")
    /\ PollOnceOver

\* _poll_once ends with exception e, or returns (e = ""), without storing
\* anything.
Leave(site, e, lg) ==
    /\ pc' = IF e = "" THEN AfterPollOnce("") ELSE RaisedAt(site, e)
    /\ log' = lg
    /\ PollOnceOver
    /\ UNCHANGED <<disk, config>>

\* This step stored the version it fetched: there is no transition left to
\* tell a room about until the endpoint changes.
Stored ==
    /\ Len(log') > Len(log)
    /\ log'[Len(log')] = Event("save", 0, "")

\* poll() enters _poll_once, at task start or when the sleep is over, up to the
\* await of the GET.
PollOnceStart ==
    /\ pc \in {"created", "woken"}
    /\ current_version' = None
    /\ old_version' = None
    /\ msg' = NoMsg
    /\ rooms' = <<>>
    /\ idx' = 0
    /\ IF GetterRaises(config) \/ UrlRaises(config)
       THEN /\ baseline' = None
            /\ Leave("url", "Exception", <<>>)
            /\ sleeps' = sleeps
       ELSE /\ \E lkv \in {LastKnownVersion(config)} :
                   /\ baseline' = lkv
                   /\ check_url' = CheckUrl(lkv, config.platform)
            /\ resp' = NoResp
            /\ pc' = "get"
            /\ log' = <<>>
            /\ sleeps' = 0
            /\ UNCHANGED <<disk, config>>
    /\ UNCHANGED <<joined, notified, cancel_requested, orphan>>

\* The bodies the endpoint can answer with: a JSON object with the version it
\* reports at that moment, text that is no JSON, an object without
\* currentVersion, and an object whose currentVersion is no version.
Bodies ==
    {[json |-> TRUE, has |-> TRUE, currentVersion |-> Str(v)] : v \in RemoteVersions}
    \cup
    {[json |-> FALSE, has |-> FALSE, currentVersion |-> <<>>],
     [json |-> TRUE, has |-> FALSE, currentVersion |-> <<>>],
     [json |-> TRUE, has |-> TRUE, currentVersion |-> Garbage]}

Responses ==
    {[status |-> s, json |-> b.json, has |-> b.has,
      currentVersion |-> b.currentVersion] : s \in {200, 500}, b \in Bodies}

\* await self.http.get(...) is over: a response of any status, or an error.
HttpGetDone ==
    /\ pc = "get"
    /\ \/ /\ \E r \in Responses : resp' = r
          /\ pc' = "json"
          /\ UNCHANGED <<disk, config, log, check_url>>
       \/ Leave("get", "Exception", log)
    /\ UNCHANGED <<joined, baseline, current_version, old_version, msg,
                   rooms, idx, notified, sleeps, cancel_requested, orphan>>

\* Whether reading the version out of response r raises: resp.json(), the
\* currentVersion key, VersionInfo.parse.
ReadRaises(r) == ~r.json \/ ~r.has \/ ~CanParse(r.currentVersion)

\* await resp.json(...) is over; the version is parsed and compared, up to the
\* await of get_joined_rooms or the end of the cycle.
RespJsonDone ==
    /\ pc = "json"
    /\ IF ReadRaises(resp)
       THEN /\ Leave("json", "Exception", log)
            /\ UNCHANGED <<current_version, old_version, msg>>
       ELSE \E cur \in {Parse(resp.currentVersion)},
               lkv \in {LastKnownVersion(config)} :
                /\ current_version' = cur
                /\ IF Changed(cur, lkv)
                   THEN IF ShouldNotify(lkv)
                        THEN /\ old_version' = lkv
                             /\ msg' = Message(check_url, lkv, cur, config.platform)
                             /\ pc' = "rooms"
                             /\ UNCHANGED <<disk, config, log, check_url, resp>>
                        ELSE /\ \E ok \in BOOLEAN : Persist(cur, ok, log)
                             /\ UNCHANGED <<old_version, msg>>
                   ELSE /\ Leave("json", "", log)
                        /\ UNCHANGED <<old_version, msg>>
    /\ notified' = IF Stored THEN {}
                    ELSE IF ReadRaises(resp) THEN notified
                    ELSE {n \in notified : n[3] = Parse(resp.currentVersion)}
    /\ UNCHANGED <<joined, baseline, rooms, idx, sleeps, cancel_requested, orphan>>

\* _notify_change is over with e ("" when it returned); line 94 follows when
\* _poll_once goes on.
NotifyOver(e, lg) ==
    /\ NotifyChangeOver
    /\ IF e = ""
       THEN \E ok \in BOOLEAN :
                Persist(current_version, ok, Append(lg, Event("notify", 0, "")))
       ELSE IF RaisedAt("rooms", e) = "persist"
       THEN \E ok \in BOOLEAN :
                Persist(current_version, ok, Append(lg, Event("notify", 0, e)))
       ELSE Leave("rooms", e, Append(lg, Event("notify", 0, e)))

\* The for loop goes to the room at position i.
GoToRoom(i, lg) ==
    /\ idx' = i
    /\ pc' = "send"
    /\ log' = lg
    /\ UNCHANGED <<disk, config, check_url, resp, old_version, msg>>

\* The for loop goes to its next room, or _notify_change returns.
NextRoom(lg) ==
    IF idx < Len(rooms) THEN GoToRoom(idx + 1, lg) ELSE NotifyOver("", lg)

\* await self.client.get_joined_rooms() is over.
GetJoinedRoomsDone ==
    /\ pc = "rooms"
    /\ \/ /\ rooms' = SetToList(joined)
          /\ IF joined = {}
             THEN NotifyOver("", Append(log, Event("enumerate", 0, "")))
             ELSE GoToRoom(1, Append(log, Event("enumerate", 0, "")))
       \/ /\ rooms' = rooms
          /\ NotifyOver("Exception", Append(log, Event("enumerate", 0, "Exception")))
    /\ notified' = IF Stored THEN {} ELSE notified
    /\ UNCHANGED <<joined, baseline, current_version, sleeps, cancel_requested,
                   orphan>>

\* await self.client.send_markdown(room_id, msg) is over with e.
SendMarkdownDone ==
    /\ pc = "send"
    /\ \E e \in {"", "MForbidden", "Exception"} :
         LET lg == Append(log, Event("send", rooms[idx], e))
         IN  /\ IF e = "" \/ RaisedAt("send", e) = "next"
                THEN NextRoom(lg)
                ELSE IF RaisedAt("send", e) = "leave"
                THEN /\ pc' = "leave"
                     /\ log' = lg
                     /\ UNCHANGED <<disk, config, check_url, resp, old_version,
                                    msg, idx>>
                ELSE NotifyOver(e, lg)
             /\ notified' =
                    IF Stored THEN {}
                    ELSE IF e = ""
                    THEN notified \cup {<<rooms[idx], old_version, current_version>>}
                    ELSE notified
    /\ UNCHANGED <<joined, baseline, current_version, rooms, sleeps,
                   cancel_requested, orphan>>

\* await self.client.leave_room(room_id) is over with e.
LeaveRoomDone ==
    /\ pc = "leave"
    /\ \E e \in {"", "Exception"} :
         LET lg == Append(log, Event("leave", rooms[idx], e))
         IN  /\ joined' = IF e = "" THEN joined \ {rooms[idx]} ELSE joined
             /\ IF e = "" \/ RaisedAt("leave", e) = "next"
                THEN NextRoom(lg)
                ELSE NotifyOver(e, lg)
    /\ notified' = IF Stored THEN {} ELSE notified
    /\ UNCHANGED <<baseline, current_version, rooms, sleeps, cancel_requested,
                   orphan>>

Next ==
    \/ Start
    \/ Stop
    \/ SleepDone
    \/ PollOnceStart
    \/ HttpGetDone
    \/ RespJsonDone
    \/ GetJoinedRoomsDone
    \/ SendMarkdownDone
    \/ LeaveRoomDone

Spec == Init /\ [][Next]_vars

\* Any sequence of start() and stop() calls, not only the framework's.
NextAnyCalls == Next \/ StartAgain \/ OrphanStep

SpecAnyCalls == Init /\ [][NextAnyCalls]_vars

\* The interval sleep ends, the event loop resumes the task, and every awaited
\* call of the cycle ends, with a result or an exception.  Each conjunct is the
\* weak fairness of one action of the task; but for the sleep it is written
\* out, []<>(not enabled) \/ []<>(taken), with the await the action is enabled
\* at.  stop() may never come.
Fairness ==
    /\ WF_vars(SleepDone)
    /\ []<>(pc \notin {"created", "woken"}) \/ []<><<PollOnceStart>>_vars
    /\ []<>(pc # "get") \/ []<><<HttpGetDone>>_vars
    /\ []<>(pc # "json") \/ []<><<RespJsonDone>>_vars
    /\ []<>(pc # "rooms") \/ []<><<GetJoinedRoomsDone>>_vars
    /\ []<>(pc # "send") \/ []<><<SendMarkdownDone>>_vars
    /\ []<>(pc # "leave") \/ []<><<LeaveRoomDone>>_vars

\* The runs in which no await hangs forever.
SpecFair == Spec /\ Fairness

\* A step in which config.save() raised.
SaveFails ==
    /\ Len(log') > Len(log)
    /\ log'[Len(log')] = Event("save", 0, "Exception")

\* The steps in which the config store does not fail and the endpoint does
\* not answer with an error status.
NextHealthy == Next /\ ~SaveFails /\ resp'.status \in {0} \cup 200..299

\* The runs in which neither the config store nor the endpoint ever fails.
SpecHealthy == Init /\ [][NextHealthy]_vars

\* ------------------------------------------------------- reading the log

\* The rooms a delivery was attempted to in this cycle, in order.
RECURSIVE SentRooms(_)
SentRooms(lg) ==
    IF lg = <<>> THEN <<>>
    ELSE IF lg[1].op = "send" THEN <<lg[1].room>> \o SentRooms(Tail(lg))
    ELSE SentRooms(Tail(lg))

Did(op, res) == \E i \in 1..Len(log) : log[i].op = op /\ log[i].res = res

DidAny(op) == \E i \in 1..Len(log) : log[i].op = op

\* The cycle is over and the task is in its interval sleep.
CycleOver == pc = "sleep"

\* The cycle read a version from the endpoint.
Fetched == current_version # None

\* The task (not stop(), not the endpoint) takes a step from its await at.
TaskStepFrom(at) == pc = at /\ pc' # at /\ pc' # "cancelled"

\* This step completes a delivery to room r.
Delivers(r) ==
    /\ pc = "send"
    /\ Len(log') > Len(log)
    /\ log'[Len(log) + 1] = Event("send", r, "")

\* This step begins a cycle that fails before its request: the stored baseline
\* is no version, or the query cannot be built.
StartFails == (TaskStepFrom("created") \/ TaskStepFrom("woken")) /\ pc' # "get"

\* This step is the enumeration of the rooms failing.
EnumerationFails ==
    /\ TaskStepFrom("rooms")
    /\ Event("enumerate", 0, "Exception") \in {log'[i] : i \in 1..Len(log')}

\* The task is inside a cycle, at one of its awaits.
InCycle == pc \in {"get", "json", "rooms", "send", "leave"}

\* ------------------------------------------------------------------ claims

\* C1: no destination is sent the notification of one transition old -> new
\* twice while the endpoint keeps answering new, whatever terminations and
\* restarts happen in between.
NoDuplicateNotification ==
    [][\A r \in Rooms :
          Delivers(r) => <<r, old_version, current_version>> \notin notified]_vars

\* C2: in a change cycle the new baseline is saved before the first delivery
\* attempt: a send in flight or done has a successful save before it.
PersistBeforeSend ==
    /\ pc = "send" => Did("save", "")
    /\ \A i \in 1..Len(log) :
          log[i].op = "send" => \E j \in 1..(i - 1) : log[j] = Event("save", 0, "")

\* C3, as claimed: after a cycle that began with no baseline and fetched v,
\* the stored baseline is v and nothing was enumerated or sent.
FirstRunAdoptionStored ==
    (CycleOver /\ baseline = None /\ Fetched) =>
        /\ disk.last_known_version = Str(current_version)
        /\ ~DidAny("send")
        /\ ~DidAny("enumerate")

\* C3, amended: after a cycle that began with no baseline and fetched v, the
\* baseline in memory is v, the stored baseline is v unless the save raised,
\* and the cycle did nothing but that one save.
FirstRunAdoption ==
    (CycleOver /\ baseline = None /\ Fetched) =>
        /\ config.last_known_version = Str(current_version)
        /\ Len(log) = 1
        /\ log[1].op = "save"
        /\ (log[1].res = "" => disk.last_known_version = Str(current_version))
        /\ rooms = <<>>

\* C3 witness: a first cycle adopted and stored the fetched version.
FirstRunAdoptionWitness ==
    /\ CycleOver /\ baseline = None /\ Fetched
    /\ disk.last_known_version = Str(current_version)
    /\ log = <<Event("save", 0, "")>>

\* C4, as claimed: after a cycle with baseline b that fetched v # b, every room
\* joined at dispatch time got exactly one delivery attempt and the stored
\* baseline is v.
ChangeNotifiesAndStores ==
    (CycleOver /\ baseline # None /\ Fetched /\ current_version # baseline) =>
        /\ SentRooms(log) = (IF Did("enumerate", "") THEN rooms ELSE SetToList(joined))
        /\ disk.last_known_version = Str(current_version)

\* C4, amended: after such a cycle, upward or downward, every room of the
\* enumeration got exactly one delivery attempt when the enumeration succeeded
\* and none when it failed; the baseline in memory is v, and the stored
\* baseline is v unless the save raised.
ChangeDetection ==
    (CycleOver /\ baseline # None /\ Fetched /\ current_version # baseline) =>
        /\ Did("enumerate", "") => SentRooms(log) = rooms
        /\ ~Did("enumerate", "") => SentRooms(log) = <<>>
        /\ \A i, j \in 1..Len(rooms) : rooms[i] = rooms[j] => i = j
        /\ config.last_known_version = Str(current_version)
        /\ DidAny("save")
        /\ Did("save", "") => disk.last_known_version = Str(current_version)

\* C4 witness: a downgrade was sent to two rooms and stored.
ChangeDetectionWitness ==
    /\ CycleOver /\ baseline # None /\ Fetched
    /\ Compare(current_version, baseline) < 0
    /\ SentRooms(log) = <<1, 2>>
    /\ disk.last_known_version = Str(current_version)

\* The step that reads a version equal to the baseline.
ReadsSameVersion ==
    /\ TaskStepFrom("json")
    /\ ~ReadRaises(resp)
    /\ baseline # None
    /\ Parse(resp.currentVersion) = baseline

\* C5: a cycle with a baseline that fetches the same version attempts no
\* delivery, saves nothing and leaves the config, in memory and stored, as it
\* was: no step of that cycle changes it.
NoChangeCycle ==
    [][((TaskStepFrom("created") \/ TaskStepFrom("sleep") \/ TaskStepFrom("woken")
            \/ TaskStepFrom("get") \/ ReadsSameVersion) =>
           /\ disk' = disk
           /\ config' = config
           /\ log' = <<>>
           /\ joined' = joined)
       /\ (ReadsSameVersion => pc' = "sleep")]_vars

\* C5 witness: a cycle read the version it already had.
NoChangeCycleWitness ==
    /\ CycleOver /\ Fetched /\ current_version = baseline
    /\ log = <<>>
    /\ disk.last_known_version = Str(baseline)

\* The step in which the fetch fails: the GET raises, or the body cannot be
\* read as a version.
FetchFails ==
    \/ TaskStepFrom("get") /\ pc' # "json"
    \/ TaskStepFrom("json") /\ ReadRaises(resp)

\* C6: a failed fetch changes neither the config in memory nor the stored
\* one, attempts no delivery, and leaves the task in its interval sleep.
FailedFetchIsNoOp ==
    [][FetchFails =>
          /\ disk' = disk
          /\ config' = config
          /\ joined' = joined
          /\ log' = <<>>
          /\ current_version' = None
          /\ pc' = "sleep"]_vars

\* C6 witness: a cycle with a baseline failed to fetch, and the task sleeps
\* with the baseline as it was.
FailedFetchWitness ==
    /\ CycleOver /\ baseline # None
    /\ ~Fetched /\ log = <<>>
    /\ LastKnownVersion(config) = baseline

\* C7: a response whose status is not 2xx makes the cycle a no-op: nothing is
\* stored and no notification is begun, whatever the body.
NonSuccessStatusIsNoOp ==
    (resp # NoResp /\ resp.status \notin 200..299) =>
        /\ log = <<>>
        /\ pc \notin {"rooms", "send", "leave"}
        /\ ~Fetched

\* C8: the version query parameter is the baseline's string when there is a
\* baseline and the sentinel 2.2222.11 when there is none, so always a version.
VersionParameter ==
    pc = "get" =>
        /\ check_url.version = (IF baseline = None THEN Sentinel ELSE Str(baseline))
        /\ CanParse(check_url.version)

\* How many rooms the for loop is done with.
RoomsDone ==
    IF pc = "send" THEN idx - 1
    ELSE IF pc = "leave" THEN idx
    ELSE Len(rooms)

\* C9: within one notification every enumerated room gets exactly one delivery
\* attempt, in turn, whatever the sends and leaves before it ended with: the
\* attempts made are always the rooms the loop is done with (the room being
\* left included), and all of them once the cycle is over.
FanOutIsolation ==
    pc \in {"send", "leave", "sleep"} =>
        /\ SentRooms(log) = SubSeq(rooms, 1, RoomsDone)
        /\ \A i, j \in 1..Len(rooms) : rooms[i] = rooms[j] => i = j
        /\ Did("enumerate", "") /\ CycleOver => Did("notify", "")

\* C9 witness: the first room's send was forbidden and leaving it failed, and
\* the second room was still attempted.
FanOutIsolationWitness ==
    /\ CycleOver
    /\ Len(log) >= 4
    /\ log[2] = Event("send", 1, "MForbidden")
    /\ log[3] = Event("leave", 1, "Exception")
    /\ log[4].op = "send" /\ log[4].room = 2

\* C10, as claimed: _notify_change never ends with an exception.
NotifyNeverRaises ==
    \A i \in 1..Len(log) : log[i].op = "notify" => log[i].res = ""

\* C10, amended: no failure of a send or of a leave is raised out of
\* _notify_change; only a failed enumeration is, before any delivery attempt,
\* and _poll_once catches it and goes on to store the new baseline.
NotifyRaisesOnlyOnEnumeration ==
    /\ pc # "failed"
    /\ \A i \in 1..Len(log) :
          (log[i].op = "notify" /\ log[i].res # "") =>
              /\ i = 2
              /\ log[1] = Event("enumerate", 0, "Exception")
              /\ Len(log) = 3
              /\ log[3].op = "save"
    /\ (Did("enumerate", "") /\ CycleOver) => Did("notify", "")

\* C10 witness: a send failed, a leave failed, and _notify_change returned.
NotifyReturnsWitness ==
    /\ CycleOver
    /\ \E r \in Rooms : Did("send", "Exception") /\ log[2].room = r
    /\ Did("leave", "Exception")
    /\ Did("notify", "")

\* C11: no failure of a cycle ends the poll task.  The task never ends with an
\* error; a step in which the cycle fails (stored baseline unparsable, fetch,
\* parse, save, enumeration) takes the task to its interval sleep; and, unless
\* stop() cancels it, a task in a cycle reaches its sleep, the sleep ends, and
\* another cycle is started.
LoopSurvives ==
    /\ [](pc # "failed")
    /\ [][(StartFails \/ FetchFails \/ SaveFails \/ EnumerationFails) =>
             pc' = "sleep"]_vars
    /\ InCycle ~> (pc = "sleep" \/ cancel_requested)
    /\ (pc = "sleep") ~> (pc = "woken" \/ cancel_requested)
    /\ (pc = "woken") ~> (pc \in {"get", "sleep"} \/ cancel_requested)

\* C11 witness: the task got through two cycles that failed on an unparsable
\* stored baseline, slept after each, and is about to start a third.
LoopSurvivesWitness ==
    /\ pc = "woken"
    /\ sleeps = 2
    /\ GetterRaises(config)
    /\ ~cancel_requested

\* C12: once stop() has cancelled the poll task, that task takes no further
\* step, wherever it was suspended: it has ended, and the only thing that
\* happens afterwards is start() creating a new task; nothing is fetched, sent,
\* left or stored in between.
CancellationStops ==
    /\ [](cancel_requested => pc = "cancelled")
    /\ [][cancel_requested =>
             /\ ~cancel_requested' /\ pc' = "created"
             /\ disk' = disk /\ joined' = joined
             /\ log' = <<>> /\ resp' = NoResp]_vars

\* C12 witness: the task was cancelled during a fan-out, after a delivery
\* and before the new baseline was set.
CancellationStopsWitness ==
    /\ cancel_requested /\ pc = "cancelled"
    /\ config.last_known_version = disk.last_known_version
    /\ \E n \in notified : Str(n[2]) = config.last_known_version

\* C13: with the platform option missing from the config, start() fails: no
\* poll task is ever created and no request is ever built.
MissingPlatformIsFatal ==
    disk.platform = PlatformAbsent => pc = "stopped" /\ check_url = NoUrl

\* The cycle that is over found a change b -> v and its notification failed,
\* as a whole or for some room.
FailedNotification ==
    /\ CycleOver /\ baseline # None /\ Fetched /\ current_version # baseline
    /\ \/ Did("enumerate", "Exception")
       \/ Did("notify", "Exception")
       \/ Did("send", "Exception")
       \/ Did("send", "MForbidden")

\* C14, as claimed: after a change cycle whose notification failed, the
\* stored baseline is the fetched version.
FailedNotificationStoresBaseline ==
    FailedNotification => disk.last_known_version = Str(current_version)

\* C14, amended: after a change cycle whose notification failed, the setter
\* has run: the baseline in memory is the fetched version v, and the stored
\* one is v unless the save raised.  The next cycle of the task reads v as its
\* baseline, and if it fetches v again it attempts no delivery and goes to
\* sleep.
NotificationDoesNotHoldBack ==
    /\ [](FailedNotification =>
             /\ config.last_known_version = Str(current_version)
             /\ LastKnownVersion(config) = current_version
             /\ DidAny("save")
             /\ (Did("save", "") => disk.last_known_version = Str(current_version)))
    /\ [][(TaskStepFrom("woken") /\ pc' = "get") =>
             baseline' = LastKnownVersion(config) /\ config' = config]_vars
    /\ [][ReadsSameVersion =>
             pc' = "sleep" /\ log' = <<>> /\ joined' = joined]_vars

\* C14 witness: the enumeration of the rooms failed in a change cycle, and the
\* fetched version is stored.
NotificationDoesNotHoldBackWitness ==
    /\ FailedNotification
    /\ Did("enumerate", "Exception")
    /\ disk.last_known_version = Str(current_version)

\* C15, as claimed: whatever start() and stop() calls are made, no two poll
\* cycles are in progress at the same time.
SingleFlight == ~(orphan = "cycle" /\ InCycle)

\* C15, amended: a second poll task comes to exist only by start() being
\* called on an instance that is running and was not stopped; a task that
\* stop() cancelled is never left running beside the next one.
SingleFlightUnlessStartedTwice ==
    [][(orphan = "none" /\ orphan' # "none") =>
          /\ pc \in Live
          /\ ~cancel_requested
          /\ pc' = "created"]_vars

\* C15 witness: the instance was stopped during a fan-out and started again;
\* the new task, the only one, is about to send a room what the cancelled
\* task had sent it.
SingleFlightWitness ==
    /\ pc = "send" /\ ~cancel_requested /\ orphan = "none"
    /\ <<rooms[idx], old_version, current_version>> \in notified

\* Version a is later than version b: by major, then minor, then patch.
Newer(a, b) ==
    \/ a[1] > b[1]
    \/ a[1] = b[1] /\ a[2] > b[2]
    \/ a[1] = b[1] /\ a[2] = b[2] /\ a[3] > b[3]

\* C16: a message that was built says "updated" exactly when the new version
\* it names is later than the old one, "downgraded" exactly when it is
\* earlier, and never names the same version twice.
ActionFollowsOrder ==
    msg # NoMsg =>
        /\ msg.old = Str(old_version) /\ msg.new = Str(current_version)
        /\ msg.old # msg.new
        /\ msg.action = "updated" <=> Newer(Parse(msg.new), Parse(msg.old))
        /\ msg.action = "downgraded" <=> Newer(Parse(msg.old), Parse(msg.new))

\* C16 witness: a message of the downgrade 2.10.9 -> 2.9.10 is being sent.
ActionFollowsOrderWitness ==
    /\ pc = "send"
    /\ msg.action = "downgraded"
    /\ msg.old = <<"2", ".", "1", "0", ".", "9">>
    /\ msg.new = <<"2", ".", "9", ".", "1", "0">>

\* C17: a room is left exactly when the send to it was forbidden: every leave
\* directly follows the forbidden send to the same room, every forbidden send
\* is followed by the leave of that room (or the leave is being awaited), no
\* room is left twice in one notification, a room whose leave failed is still
\* joined while one whose leave succeeded is not, and a failed leave does not
\* end the notification.
LeaveOnlyOnForbidden ==
    /\ \A i \in 1..Len(log) :
          log[i].op = "leave" =>
              /\ i > 1
              /\ log[i - 1] = Event("send", log[i].room, "MForbidden")
              /\ \A j \in 1..Len(log) :
                    (log[j].op = "leave" /\ log[j].room = log[i].room) => j = i
              /\ log[i].res = "Exception" => log[i].room \in joined
              /\ log[i].res = "" => log[i].room \notin joined
    /\ \A i \in 1..Len(log) :
          (log[i].op = "send" /\ log[i].res = "MForbidden") =>
              IF i < Len(log)
              THEN log[i + 1].op = "leave" /\ log[i + 1].room = log[i].room
              ELSE pc = "leave" /\ rooms[idx] = log[i].room
    /\ pc = "leave" =>
          /\ Len(log) > 0
          /\ log[Len(log)] = Event("send", rooms[idx], "MForbidden")
    /\ (CycleOver /\ Did("leave", "Exception")) => Did("notify", "")

\* C17 witness: in one notification a room refused the message and could not
\* be left, and is still joined; another room took the message and was not
\* left.
LeaveOnlyOnForbiddenWitness ==
    /\ CycleOver
    /\ \E r \in joined : Event("leave", r, "Exception") \in {log[i] : i \in 1..Len(log)}
    /\ \E r \in joined :
          /\ Event("send", r, "") \in {log[i] : i \in 1..Len(log)}
          /\ \A i \in 1..Len(log) : ~(log[i].op = "leave" /\ log[i].room = r)

\* C18: every request of the task but its first is preceded by exactly one
\* completed interval sleep since the request before it, and the first by
\* none; a cycle that ends, in failure or not, ends in the sleep, and the
\* sleep ends before anything else is done.
SleepBetweenCycles ==
    /\ [][(pc # "get" /\ pc' = "get") =>
             \/ pc = "created" /\ sleeps = 0
             \/ pc = "woken" /\ sleeps = 1]_vars
    /\ [][(InCycle /\ pc' \notin {"get", "json", "rooms", "send", "leave"}) =>
             pc' \in {"sleep", "cancelled"}]_vars
    /\ [][(pc = "sleep" /\ pc' # "sleep") => pc' \in {"woken", "cancelled"}]_vars

\* C18 witness: a cycle failed in its save, one sleep is over, and the next
\* request is about to be made.
SleepBetweenCyclesWitness ==
    /\ pc = "woken" /\ sleeps = 1
    /\ ~GetterRaises(config) /\ ~UrlRaises(config)
    /\ config.last_known_version # disk.last_known_version

\* C19: every write of the stored config writes, as last_known_version, the
\* version of the response of the cycle under way, which is a response with a
\* success status whose body parsed, and never the sentinel; and no write
\* changes the stored platform.
BaselineWasObserved ==
    /\ [][disk'.last_known_version # disk.last_known_version =>
             /\ resp.status \in 200..299
             /\ ~ReadRaises(resp)
             /\ disk'.last_known_version = resp.currentVersion
             /\ disk'.last_known_version # Sentinel]_vars
    /\ [][disk'.platform = disk.platform]_vars

\* C20: a save that raises is caught by poll(), which goes on to the sleep;
\* the stored config is as before while the baseline in memory is the fetched
\* version; and a later cycle of the task that reads that version again, with
\* memory and store still apart, sends nothing and saves nothing.
SaveFailureSplits ==
    /\ [][SaveFails =>
             /\ pc' = "sleep"
             /\ disk' = disk
             /\ config'.last_known_version = Str(current_version')
             /\ LastKnownVersion(config') = current_version']_vars
    /\ [][(ReadsSameVersion
              /\ disk.last_known_version # config.last_known_version) =>
             /\ pc' = "sleep"
             /\ log' = <<>>
             /\ disk' = disk
             /\ config' = config]_vars

\* C20 witness: with the stored baseline behind the one in memory, a cycle
\* read the version in memory again and did nothing.
SaveFailureSplitsWitness ==
    /\ CycleOver /\ Fetched /\ current_version = baseline
    /\ log = <<>>
    /\ disk.last_known_version # config.last_known_version
    /\ config.last_known_version = Str(current_version)

=============================================================================
